---- MODULE Spec2Model ----
(***************************************************************************)
(* A model of rasa/nlu/classifiers/embedding_intent_classifier.py: the     *)
(* EmbeddingIntentClassifier component (construction, data preparation,    *)
(* train, process, persist, load) and the parts of DIET it drives.         *)
(*                                                                         *)
(* Python values are represented as follows.  None is the record None for  *)
(* structured values and the string "None" for names.  A list is a         *)
(* sequence, a Token or an entity a record.  A dict that may be None is    *)
(* the record [dict |-> f] of the function f.  A feature matrix is         *)
(* described by its shape, [rows, dim].  A text is the sequence of its     *)
(* character codes.  A call that raises yields [raised |-> <error name>].  *)
(***************************************************************************)
EXTENDS Integers, Sequences, FiniteSets, TLC

VARIABLES
    component,      \* the fields of the EmbeddingIntentClassifier instance
    msg,            \* the Message handed to process
    corpus,         \* the TrainingData handed to the data preparation
    predict_out,    \* the prediction output handed on by _predict
    disk,           \* the model directory: what persist has written
    ret             \* the last call: its name, arguments and outcome

vars == <<component, msg, corpus, predict_out, disk, ret>>

(***************************************************************************)
(* Bounds of the model.                                                    *)
(***************************************************************************)
TextLen == 3        \* longest message text
MaxTokens == 3      \* most tokens (and tags) of one message
MaxDictExamples == 2     \* most examples of a corpus of labels and tags
MaxFeatureExamples == 2  \* most examples of a corpus of feature variants
SparseDim == 2      \* width of the sparse feature matrices
DenseDim == 1       \* width of the dense feature matrices
MaxLabels == 11     \* most labels of a model whose scores are ranked
MaskBatch == 2      \* sequences of a batch whose tokens are masked
MaskSeqLen == 3     \* most tokens of a sequence of that batch

(***************************************************************************)
(* Python helpers.                                                         *)
(***************************************************************************)
None == [none |-> TRUE]

Min(a, b) == IF a < b THEN a ELSE b

Max(a, b) == IF a > b THEN a ELSE b

\* the k-th smallest element of a set of numbers
KthOf(S, k) == CHOOSE i \in S : Cardinality({j \in S : j < i}) = k - 1

\* text[start:end] for non-negative offsets: both are clamped to len(text)
PySlice(text, start, end) ==
    LET e == Min(end, Len(text))
        s == Min(start, Len(text))
    IN  IF s >= e THEN <<>> ELSE SubSeq(text, s + 1, e)

\* the tag names a tagger can emit; "O" is the outside tag
TagNames == {"A", "O", "P"}

\* the text of n characters
TextOf(n) == [i \in 1..n |-> 96 + i]

\* Tokens carry character offsets; a tokenizer emits them left to right and
\* non-overlapping, the trailing __CLS__ token lying beyond the text.
MaxOffset == TextLen + 1

Token == {t \in [start : 0..MaxOffset, end : 0..MaxOffset] : t.start < t.end}

TokenSeqs ==
    UNION {{ts \in [1..n -> Token] :
                \A i \in 1..(n - 1) : ts[i].end <= ts[i + 1].start}
           : n \in 0..MaxTokens}

TagSeqs == UNION {[1..n -> TagNames] : n \in 0..MaxTokens}

(***************************************************************************)
(* EmbeddingIntentClassifier._convert_tags_to_entities                     *)
(***************************************************************************)
RECURSIVE ConvertLoop(_, _, _, _, _)
\* the for loop over zip(tokens, tags); i is the position, 1-based
ConvertLoop(tokens, tags, i, entities, last_tag) ==
    IF i > Min(Len(tokens), Len(tags)) THEN entities
    ELSE LET token == tokens[i]
             tag == tags[i]
         IN  IF tag = "O"
             THEN ConvertLoop(tokens, tags, i + 1, entities, tag)
             ELSE IF last_tag # tag
             THEN ConvertLoop(tokens, tags, i + 1,
                      Append(entities, [entity |-> tag,
                                        start |-> token.start,
                                        end |-> token.end,
                                        extractor |-> "DIET"]),
                      tag)
             ELSE ConvertLoop(tokens, tags, i + 1,
                      [entities EXCEPT ![Len(entities)].end = token.end],
                      tag)

\* the second loop: entity["value"] = text[entity["start"] : entity["end"]]
AddValues(text, entities) ==
    [k \in 1..Len(entities) |->
        [entity |-> entities[k].entity,
         start |-> entities[k].start,
         end |-> entities[k].end,
         extractor |-> entities[k].extractor,
         value |-> PySlice(text, entities[k].start, entities[k].end)]]

RECURSIVE ConvertLoopKeepLast(_, _, _, _, _)
\* the loop with the reset of last_tag on an "O" token left out
ConvertLoopKeepLast(tokens, tags, i, entities, last_tag) ==
    IF i > Min(Len(tokens), Len(tags)) THEN entities
    ELSE LET token == tokens[i]
             tag == tags[i]
         IN  IF tag = "O"
             THEN ConvertLoopKeepLast(tokens, tags, i + 1, entities, last_tag)
             ELSE IF last_tag # tag
             THEN ConvertLoopKeepLast(tokens, tags, i + 1,
                      Append(entities, [entity |-> tag,
                                        start |-> token.start,
                                        end |-> token.end,
                                        extractor |-> "DIET"]),
                      tag)
             ELSE ConvertLoopKeepLast(tokens, tags, i + 1,
                      [entities EXCEPT ![Len(entities)].end = token.end],
                      tag)

_convert_tags_to_entities_keep_last(text, tokens, tags) ==
    AddValues(text, ConvertLoopKeepLast(tokens, tags, 1, <<>>, "O"))

_convert_tags_to_entities(text, tokens, tags) ==
    AddValues(text, ConvertLoop(tokens, tags, 1, <<>>, "O"))

(***************************************************************************)
(* Configuration and construction.                                         *)
(***************************************************************************)
\* the values hidden_layers_sizes_text / _label are drawn from
HiddenLayersSizes == {<<>>, <<256>>}

\* the component configurations: the keys of `defaults` that the modelled
\* code reads, each over the values that make it branch
Configs ==
    [share_hidden_layers : BOOLEAN,
     hidden_layers_sizes_text : HiddenLayersSizes,
     hidden_layers_sizes_label : HiddenLayersSizes,
     similarity_type : {"auto", "cosine", "inner"},
     loss_type : {"softmax", "margin"},
     evaluate_every_number_of_epochs : {0, 20},
     epochs : {300},
     perform_intent_classification : BOOLEAN,
     perform_entity_recognition : BOOLEAN,
     use_masked_language_model : BOOLEAN]

\* `defaults`
defaults ==
    [share_hidden_layers |-> FALSE,
     hidden_layers_sizes_text |-> <<>>,
     hidden_layers_sizes_label |-> <<>>,
     similarity_type |-> "auto",
     loss_type |-> "softmax",
     evaluate_every_number_of_epochs |-> 20,
     epochs |-> 300,
     perform_intent_classification |-> TRUE,
     perform_entity_recognition |-> TRUE,
     use_masked_language_model |-> FALSE]

\* the "auto" branch resolving for the softmax loss only
ResolveSimilarityType_softmax_only(config) ==
    IF config.similarity_type = "auto" /\ config.loss_type = "softmax"
    THEN "inner"
    ELSE config.similarity_type

\* the similarity type after the "auto" branch of _check_config_parameters
\* (the same statements stand in load)
ResolveSimilarityType(config) ==
    IF config.similarity_type = "auto"
    THEN IF config.loss_type = "softmax" THEN "inner"
         ELSE IF config.loss_type = "margin" THEN "cosine"
         ELSE config.similarity_type
    ELSE config.similarity_type

\* the configuration after the two adjustments of _check_config_parameters
AdjustConfig(component_config) ==
    LET c1 == [component_config EXCEPT
                    !.similarity_type =
                        ResolveSimilarityType(component_config)]
    IN  IF c1.evaluate_every_number_of_epochs < 1
        THEN [c1 EXCEPT !.evaluate_every_number_of_epochs = c1.epochs]
        ELSE c1

\* _check_config_parameters raising whenever the two lists differ
_check_config_parameters_ignore_share(component_config) ==
    IF component_config.hidden_layers_sizes_text
            # component_config.hidden_layers_sizes_label
    THEN [raised |-> "ValueError", error |-> "hidden layer weights are shared"]
    ELSE [raised |-> "none",
          component_config |-> AdjustConfig(component_config)]

_check_config_parameters(component_config) ==
    IF /\ component_config.share_hidden_layers
       /\ component_config.hidden_layers_sizes_text
              # component_config.hidden_layers_sizes_label
    THEN [raised |-> "ValueError", error |-> "hidden layer weights are shared"]
    ELSE [raised |-> "none",
          component_config |-> AdjustConfig(component_config)]

\* EmbeddingIntentClassifier.__init__: the instance, or the error raised
__init__(component_config, inverted_label_dict, inverted_tag_dict, model, predict_func) ==
    LET checked == _check_config_parameters(component_config)
    IN  IF checked.raised # "none" THEN checked
        ELSE [raised |-> "none",
              self |-> [component_config |-> checked.component_config,
                        inverted_label_dict |-> inverted_label_dict,
                        inverted_tag_dict |-> inverted_tag_dict,
                        model |-> model,
                        predict_func |-> predict_func,
                        _label_data |-> None,
                        num_tags |-> 0,
                        data_example |-> None]]

(***************************************************************************)
(* Training data.  An example is a Message with the fields the component   *)
(* reads:                                                                  *)
(*   text                    the text, named by its length                 *)
(*   intent                  the intent label, "None" when it has none     *)
(*   entities                the annotations [entity, start, end]          *)
(*   tokens                  the tokens                                    *)
(*   <attr>_sparse_features  the sparse features of text / intent, or None *)
(*   <attr>_dense_features   the dense features of text / intent, or None  *)
(* A feature matrix is [rows, dim, of]: its shape and what was featurized. *)
(***************************************************************************)
\* the intent labels of the corpora, and Python's order of all names used
IntentNames == {"bye", "greet"}

StrOrder == <<"A", "O", "P", "bye", "greet">>

StrRank(name) == CHOOSE i \in 1..Len(StrOrder) : StrOrder[i] = name

\* sorted(names) for a set of strings
sorted(names) ==
    [k \in 1..Cardinality(names) |->
        CHOOSE x \in names :
            Cardinality({y \in names : StrRank(y) < StrRank(x)}) = k - 1]

SPARSE_FEATURE_NAMES ==
    [text |-> "text_sparse_features", intent |-> "intent_sparse_features"]

DENSE_FEATURE_NAMES ==
    [text |-> "text_dense_features", intent |-> "intent_dense_features"]

\* the elements of a sequence that satisfy a test, in order
RECURSIVE SelectSeqBy(_, _)
SelectSeqBy(seq, keep) ==
    IF seq = <<>> THEN <<>>
    ELSE IF keep[1]
         THEN <<seq[1]>> \o SelectSeqBy(Tail(seq), Tail(keep))
         ELSE SelectSeqBy(Tail(seq), Tail(keep))

\* TrainingData.intent_examples: the examples that have an intent
intent_examples(training_data) ==
    SelectSeqBy(training_data,
                [i \in 1..Len(training_data) |->
                    training_data[i].intent # "None"])

\* TrainingData.entity_examples: the examples that have entities
entity_examples(training_data) ==
    SelectSeqBy(training_data,
                [i \in 1..Len(training_data) |->
                    training_data[i].entities # <<>>])

\* _create_label_id_dict with the ids in the order the labels first appear
_create_label_id_dict_first_seen(training_data, attribute) ==
    LET examples == intent_examples(training_data)
        distinct_label_ids ==
            {examples[i][attribute] : i \in 1..Len(examples)} \ {"None"}
        first(label) ==
            CHOOSE i \in 1..Len(examples) :
                /\ examples[i][attribute] = label
                /\ \A j \in 1..(i - 1) : examples[j][attribute] # label
    IN  [label \in distinct_label_ids |->
            Cardinality({other \in distinct_label_ids :
                            first(other) < first(label)})]

\* _create_label_id_dict: label name -> id, ids in sorted name order from 0
_create_label_id_dict(training_data, attribute) ==
    LET examples == intent_examples(training_data)
        distinct_label_ids ==
            {examples[i][attribute] : i \in 1..Len(examples)} \ {"None"}
        order == sorted(distinct_label_ids)
    IN  [label \in distinct_label_ids |->
            (CHOOSE k \in 1..Len(order) : order[k] = label) - 1]

\* the entity names annotated in a list of examples
EntityNamesOf(examples) ==
    {examples[i].entities[j].entity :
        <<i, j>> \in {p \in (1..Len(examples)) \X (1..MaxTokens) :
                        p[2] <= Len(examples[p[1]].entities)}}

\* _create_tag_id_dict with the tags numbered from 0, as the labels are
_create_tag_id_dict_from_zero(training_data) ==
    LET distinct_tag_ids ==
            EntityNamesOf(entity_examples(training_data)) \ {"None"}
        order == sorted(distinct_tag_ids)
    IN  [tag \in distinct_tag_ids \cup {"O"} |->
            IF tag = "O" THEN 0
            ELSE (CHOOSE k \in 1..Len(order) : order[k] = tag) - 1]

\* _create_tag_id_dict: tag name -> id, ids in sorted name order from 1,
\* then "O" set to 0
_create_tag_id_dict(training_data) ==
    LET distinct_tag_ids ==
            EntityNamesOf(entity_examples(training_data)) \ {"None"}
        order == sorted(distinct_tag_ids)
    IN  [tag \in distinct_tag_ids \cup {"O"} |->
            IF tag = "O" THEN 0
            ELSE CHOOSE k \in 1..Len(order) : order[k] = tag]

\* {v: k for k, v in d.items()}: of the keys that share a value the one
\* inserted last stays; both dictionaries are filled in sorted key order
InvertDict(d) ==
    [v \in {d[k] : k \in DOMAIN d} |->
        CHOOSE k \in DOMAIN d :
            /\ d[k] = v
            /\ \A k2 \in DOMAIN d : d[k2] = v => StrRank(k2) <= StrRank(k)]

(***************************************************************************)
(* Feature extraction and RasaModelData.                                   *)
(***************************************************************************)
\* _extract_and_add_features comparing the last dimension of the two shapes
_extract_and_add_features_last_dim(message, attribute) ==
    LET sparse_features == message[SPARSE_FEATURE_NAMES[attribute]]
        dense_features == message[DENSE_FEATURE_NAMES[attribute]]
    IN  IF /\ sparse_features # None
           /\ dense_features # None
           /\ sparse_features.dim # dense_features.dim
        THEN [raised |-> "ValueError", error |-> "sequence dimensions",
              text |-> message.text, attribute |-> attribute]
        ELSE [raised |-> "none",
              sparse |-> sparse_features, dense |-> dense_features]

\* _extract_and_add_features: (sparse, dense) of the attribute, or the
\* ValueError that names the message text and the attribute
_extract_and_add_features(message, attribute) ==
    LET sparse_features == message[SPARSE_FEATURE_NAMES[attribute]]
        dense_features == message[DENSE_FEATURE_NAMES[attribute]]
    IN  IF /\ sparse_features # None
           /\ dense_features # None
           /\ sparse_features.rows # dense_features.rows
        THEN [raised |-> "ValueError", error |-> "sequence dimensions",
              text |-> message.text, attribute |-> attribute]
        ELSE [raised |-> "none",
              sparse |-> sparse_features, dense |-> dense_features]

\* an empty RasaModelData; a key without data holds the empty list
RasaModelData ==
    [text_features |-> <<>>, label_features |-> <<>>, label_ids |-> <<>>,
     tag_ids |-> <<>>, text_mask |-> <<>>, label_mask |-> <<>>]

\* RasaModelData.add_features: the arrays that are not empty are kept
add_features(data, key, features) ==
    [data EXCEPT ![key] =
        SelectSeqBy(features,
                    [v \in 1..Len(features) |-> features[v] # <<>>])]

\* RasaModelData.add_mask: a column of ones per example of the first array
add_mask(data, key, from_key) ==
    IF data[from_key] = <<>> THEN data
    ELSE [data EXCEPT ![key] =
            <<[i \in 1..Len(data[from_key][1]) |->
                [rows |-> data[from_key][1][i].rows, dim |-> 1,
                 of |-> "mask"]]>>]

\* RasaModelData.feature_not_exists
feature_not_exists(data, key) == data[key] = <<>>

\* RasaModelData.get_feature_dimension: the widths of the arrays of a key,
\* each read off its first example, added up
RECURSIVE SumDims(_)
SumDims(arrays) ==
    IF arrays = <<>> THEN 0
    ELSE arrays[1][1].dim + SumDims(Tail(arrays))

get_feature_dimension(data, key) == SumDims(data[key])

\* the index of the first element of a sequence of results that raised
FirstRaised(results) ==
    CHOOSE i \in 1..Len(results) :
        /\ results[i].raised # "none"
        /\ \A j \in 1..(i - 1) : results[j].raised = "none"

AnyRaised(results) == \E i \in 1..Len(results) : results[i].raised # "none"

\* check_input_dimension_consistency without the test of share_hidden_layers
check_input_dimension_consistency_always(self, model_data) ==
    IF get_feature_dimension(model_data, "text_features")
            # get_feature_dimension(model_data, "label_features")
    THEN [raised |-> "ValueError", error |-> "embeddings are shared"]
    ELSE [raised |-> "none"]

\* check_input_dimension_consistency
check_input_dimension_consistency(self, model_data) ==
    IF self.component_config.share_hidden_layers
    THEN LET num_text_features ==
                 get_feature_dimension(model_data, "text_features")
             num_intent_features ==
                 get_feature_dimension(model_data, "label_features")
         IN  IF num_text_features # num_intent_features
             THEN [raised |-> "ValueError",
                   error |-> "embeddings are shared"]
             ELSE [raised |-> "none"]
    ELSE [raised |-> "none"]

(***************************************************************************)
(* Label data.                                                             *)
(***************************************************************************)
\* _find_example_for_label: the first example that carries the label
_find_example_for_label(label, examples, attribute) ==
    IF \E i \in 1..Len(examples) : examples[i][attribute] = label
    THEN examples[CHOOSE i \in 1..Len(examples) :
                    /\ examples[i][attribute] = label
                    /\ \A j \in 1..(i - 1) : examples[j][attribute] # label]
    ELSE None

\* _check_labels_features_exist
_check_labels_features_exist(labels_example, attribute) ==
    \A i \in 1..Len(labels_example) :
        ~ (/\ labels_example[i][SPARSE_FEATURE_NAMES[attribute]] = None
           /\ labels_example[i][DENSE_FEATURE_NAMES[attribute]] = None)

\* the two lists a loop over _extract_and_add_features results fills: the
\* sparse features that are not None and the dense ones that are not None
SparseOf(results) ==
    SelectSeqBy([i \in 1..Len(results) |-> results[i].sparse],
                [i \in 1..Len(results) |-> results[i].sparse # None])

DenseOf(results) ==
    SelectSeqBy([i \in 1..Len(results) |-> results[i].dense],
                [i \in 1..Len(results) |-> results[i].dense # None])

\* _extract_labels_precomputed_features
_extract_labels_precomputed_features(self, label_examples, attribute) ==
    LET results ==
            [i \in 1..Len(label_examples) |->
                _extract_and_add_features(label_examples[i], attribute)]
    IN  IF AnyRaised(results) THEN results[FirstRaised(results)]
        ELSE [raised |-> "none",
              features |-> <<SparseOf(results), DenseOf(results)>>]

\* _compute_default_label_features: the rows of the identity matrix
_compute_default_label_features(labels_example) ==
    <<[i \in 1..Len(labels_example) |->
        [rows |-> 1, dim |-> Len(labels_example), of |-> "eye",
         hot |-> i - 1]]>>

\* _create_label_data: one example per label in the order of the label ids,
\* its features if every one has some, else the identity rows
_create_label_data(self, training_data, label_id_dict, attribute) ==
    LET labels_example ==
            [k \in 1..Cardinality(DOMAIN label_id_dict) |->
                _find_example_for_label(
                    CHOOSE name \in DOMAIN label_id_dict :
                        label_id_dict[name] =
                            KthOf({label_id_dict[n] :
                                      n \in DOMAIN label_id_dict}, k),
                    intent_examples(training_data), attribute)]
        extracted ==
            IF _check_labels_features_exist(labels_example, attribute)
            THEN _extract_labels_precomputed_features(self, labels_example,
                                                      attribute)
            ELSE [raised |-> "none",
                  features |->
                      _compute_default_label_features(labels_example)]
    IN  IF extracted.raised # "none" THEN extracted
        ELSE [raised |-> "none",
              label_data |->
                  add_mask(add_features(RasaModelData, "label_features",
                                        extracted.features),
                           "label_mask", "label_features")]

(***************************************************************************)
(* Model data.                                                             *)
(***************************************************************************)
\* determine_token_labels: the entity annotated over the token, else "O"
determine_token_labels(token, entities) ==
    LET candidates ==
            {j \in 1..Len(entities) :
                /\ entities[j].start < token.end
                /\ token.start < entities[j].end}
    IN  IF candidates = {} THEN "O"
        ELSE entities[KthOf(candidates, 1)].entity

\* the truth value of an optional dict: neither None nor empty
Truthy(d) == d # None /\ DOMAIN d.dict # {}

\* _use_default_label_features: the row of _label_data of each label id
_use_default_label_features(self, label_ids) ==
    <<[i \in 1..Len(label_ids) |->
        self._label_data.label_features[1][label_ids[i] + 1]]>>

\* _create_model_data: the RasaModelData of a list of messages, or the
\* error of the first message whose features do not fit
_create_model_data(self, training_data, label_id_dict, tag_id_dict, label_attribute) ==
    LET n == Len(training_data)
        labelled ==
            [i \in 1..n |->
                /\ label_attribute # "None"
                /\ training_data[i][label_attribute] # "None"]
        text_results ==
            [i \in 1..n |->
                _extract_and_add_features(training_data[i], "text")]
        label_results ==
            [i \in 1..n |->
                IF labelled[i]
                THEN _extract_and_add_features(training_data[i],
                                               label_attribute)
                ELSE [raised |-> "none", sparse |-> None, dense |-> None]]
        \* what the loop body of example i does: text first, then the label
        results ==
            [i \in 1..n |->
                IF text_results[i].raised # "none" THEN text_results[i]
                ELSE label_results[i]]
        X_sparse == SparseOf(text_results)
        X_dense == DenseOf(text_results)
        Y_sparse == SparseOf(label_results)
        Y_dense == DenseOf(label_results)
        label_ids ==
            IF Truthy(label_id_dict)
            THEN SelectSeqBy(
                    [i \in 1..n |->
                        IF labelled[i]
                        THEN label_id_dict.dict[
                                training_data[i][label_attribute]]
                        ELSE 0],
                    labelled)
            ELSE <<>>
        tag_ids ==
            IF /\ self.component_config.perform_entity_recognition
               /\ Truthy(tag_id_dict)
            THEN [i \in 1..n |->
                    [t \in 1..Len(training_data[i].tokens) |->
                        tag_id_dict.dict[
                            determine_token_labels(
                                training_data[i].tokens[t],
                                training_data[i].entities)]]]
            ELSE <<>>
        d1 == add_features(RasaModelData, "text_features",
                           <<X_sparse, X_dense>>)
        d2 == add_features(d1, "label_features", <<Y_sparse, Y_dense>>)
        d3 == IF /\ label_attribute # "None"
                 /\ feature_not_exists(d2, "label_features")
              THEN add_features(d2, "label_features",
                       _use_default_label_features(self, label_ids))
              ELSE d2
        d4 == add_features(d3, "label_ids", <<label_ids>>)
        d5 == add_features(d4, "tag_ids", <<tag_ids>>)
        d6 == add_mask(d5, "text_mask", "text_features")
        d7 == add_mask(d6, "label_mask", "label_features")
    IN  IF AnyRaised(results) THEN results[FirstRaised(results)]
        ELSE [raised |-> "none", model_data |-> d7]

\* TrainingData.training_examples: every example
training_examples(training_data) == training_data

\* the end of preprocess_train_data, from `self.num_tags = ...` on:
\* `created` is what _create_model_data returned or raised
CheckCreated(self3, created, label_id_dict, tag_id_dict) ==
    LET self4 == [self3 EXCEPT
                    !.num_tags =
                        Cardinality(DOMAIN self3.inverted_tag_dict.dict)]
        checked == check_input_dimension_consistency(self4,
                                                     created.model_data)
    IN  IF created.raised # "none"
        THEN [raised |-> created.raised, error |-> created.error,
              self |-> self3]
        ELSE IF checked.raised # "none"
        THEN [raised |-> checked.raised, error |-> checked.error,
              self |-> self4, model_data |-> created.model_data]
        ELSE [raised |-> "none", self |-> self4,
              model_data |-> created.model_data,
              label_id_dict |-> label_id_dict,
              tag_id_dict |-> tag_id_dict]

\* preprocess_train_data: the model data, or the error raised; in both cases
\* `self` is the instance with the fields assigned up to there
preprocess_train_data(self, training_data) ==
    LET label_id_dict == _create_label_id_dict(training_data, "intent")
        self1 == [self EXCEPT
                    !.inverted_label_dict =
                        [dict |-> InvertDict(label_id_dict)]]
        label_data == _create_label_data(self1, training_data,
                                         label_id_dict, "intent")
        self2 == [self1 EXCEPT !._label_data = label_data.label_data]
        tag_id_dict == _create_tag_id_dict(training_data)
        self3 == [self2 EXCEPT
                    !.inverted_tag_dict = [dict |-> InvertDict(tag_id_dict)]]
    IN  IF label_data.raised # "none"
        THEN [raised |-> label_data.raised, error |-> label_data.error,
              self |-> self1]
        ELSE CheckCreated(self3,
                          _create_model_data(self3,
                              training_examples(training_data),
                              [dict |-> label_id_dict],
                              [dict |-> tag_id_dict], "intent"),
                          label_id_dict, tag_id_dict)

\* _check_enough_labels: at least two different label ids
_check_enough_labels(model_data) ==
    LET label_ids ==
            IF model_data.label_ids = <<>> THEN <<>>
            ELSE model_data.label_ids[1]
    IN  Cardinality({label_ids[i] : i \in 1..Len(label_ids)}) >= 2

(***************************************************************************)
(* DIET: the attributes and layers of the model, a training step, fit and  *)
(* predict.  The tensors are not modelled: a model is its configuration,   *)
(* the data it was built from, the names it defines and what was done to   *)
(* it.                                                                     *)
(***************************************************************************)
\* RasaModelData.get_signature: the keys that hold data, each with the
\* number of its arrays
get_signature(data) ==
    [key \in {k \in DOMAIN data : data[k] # <<>>} |-> Len(data[key])]

\* the keys DIET._prepare_layers and the _prepare_*_layers store in
\* self._tf_layers
PreparedLayers ==
    {"sparse_dropout", "sparse_to_dense", "ffnn", "transformer", "embed",
     "input_mask", "loss_mask", "loss_label", "crf", "crf_f1_score"}

\* the attributes with every layer also assigned under the name it is read by
AssignedAttributes_with_layers ==
    {"data_signature", "tf_label_data", "_num_tags", "config", "_tf_layers",
     "training", "_optimizer", "intent_acc", "intent_loss", "mask_loss",
     "mask_acc", "entity_loss", "entity_f1", "all_labels_embed",
     "batch_tuple_sizes", "_embed", "_loss_label", "_crf", "_loss_mask"}

\* the attributes DIET.__init__ and _prepare_layers assign on self
AssignedAttributes ==
    {"data_signature", "tf_label_data", "_num_tags", "config", "_tf_layers",
     "training", "_optimizer", "intent_acc", "intent_loss", "mask_loss",
     "mask_acc", "entity_loss", "entity_f1", "all_labels_embed",
     "batch_tuple_sizes"}

\* DIET.__init__: _prepare_sequence_layers indexes the signature by
\* "text_features" and "label_features"
DIET(data_signature, label_data, inverted_tag_dict, config) ==
    IF \/ "text_features" \notin DOMAIN data_signature
       \/ "label_features" \notin DOMAIN data_signature
    THEN [raised |-> "KeyError", error |-> "data_signature"]
    ELSE [raised |-> "none",
          model |-> [data_signature |-> data_signature,
                     tf_label_data |-> label_data,
                     inverted_tag_dict |-> inverted_tag_dict,
                     _num_tags |-> Cardinality(DOMAIN inverted_tag_dict.dict),
                     config |-> config,
                     _tf_layers |-> PreparedLayers,
                     attributes |-> AssignedAttributes,
                     training |-> TRUE,
                     updated |-> {},
                     weights |-> "initial",
                     all_labels_embed |-> None]]

\* reading self.<name> of a model: an AttributeError unless it was assigned
HasAttribute(model, name) == name \in model.attributes

\* the tf.cond of DIET._mask_loss: the selection as drawn if any of its
\* entries is true, else the tensor that is true at [0, 0, 0] only
AtLeastOneMasked(lm_mask_bool) ==
    IF \E b \in 1..Len(lm_mask_bool) :
          \E t \in 1..Len(lm_mask_bool[b]) : lm_mask_bool[b][t]
    THEN lm_mask_bool
    ELSE [b \in 1..Len(lm_mask_bool) |->
            [t \in 1..Len(lm_mask_bool[b]) |-> b = 1 /\ t = 1]]

\* tf.cast(tf.reduce_sum(mask_text[:, :, 0], 1), tf.int32): the number of
\* non-padding positions of each sequence of the batch
reduce_sum(mask_text) ==
    [b \in 1..Len(mask_text) |->
        Cardinality({t \in 1..Len(mask_text[b]) : mask_text[b][t]})]

\* _train_losses_scores: the 0-based position the _cls_ vector is gathered at
TrainLastIndex(mask_text) ==
    LET sequence_lengths == reduce_sum(mask_text)
    IN  [b \in 1..Len(mask_text) |-> Max(0, sequence_lengths[b] - 1)]

\* _entity_loss: the sequence lengths the CRF loss and the CRF decoding of a
\* training step get
EntityLossLengths(mask_text) ==
    LET sequence_lengths == reduce_sum(mask_text)
    IN  [b \in 1..Len(mask_text) |-> sequence_lengths[b] - 1]

\* predict: the 0-based position the _cls_ vector is gathered at
PredictLastIndex(mask_text) ==
    LET sequence_lengths == reduce_sum(mask_text)
    IN  [b \in 1..Len(mask_text) |-> Max(0, sequence_lengths[b] - 1)]

\* predict handing the CRF the lengths with the _cls_ position
PredictCrfLengths_with_cls(mask_text) ==
    reduce_sum(mask_text)

\* predict: the sequence lengths the CRF decoding gets
PredictCrfLengths(mask_text) ==
    LET sequence_lengths == reduce_sum(mask_text)
    IN  [b \in 1..Len(mask_text) |-> sequence_lengths[b] - 1]

\* DIET._mask_loss: ends in a call of self._loss_mask
_mask_loss(model) ==
    IF HasAttribute(model, "_loss_mask") THEN [raised |-> "none"]
    ELSE [raised |-> "AttributeError", error |-> "_loss_mask"]

\* DIET._train_losses_scores: the metrics each enabled objective updates
_train_losses_scores(model, batch_in) ==
    LET masked == IF model.config.use_masked_language_model
                  THEN _mask_loss(model) ELSE [raised |-> "none"]
        after_mask ==
            IF model.config.use_masked_language_model
            THEN {"mask_loss", "mask_acc"} ELSE {}
        after_intent ==
            IF model.config.perform_intent_classification
            THEN {"intent_loss", "intent_acc"} ELSE {}
        after_entity ==
            IF model.config.perform_entity_recognition
            THEN {"entity_loss", "entity_f1"} ELSE {}
    IN  IF masked.raised # "none" THEN masked
        ELSE IF /\ model.config.perform_intent_classification
                /\ "label_features" \notin DOMAIN batch_in
        THEN [raised |-> "KeyError", error |-> "label_features"]
        ELSE IF /\ model.config.perform_entity_recognition
                /\ "tag_ids" \notin DOMAIN batch_in
        THEN [raised |-> "KeyError", error |-> "tag_ids"]
        ELSE [raised |-> "none",
              model |-> [model EXCEPT
                            !.updated = model.updated \cup after_mask
                                \cup after_intent \cup after_entity,
                            !.weights = "fitted"]]

\* RasaModel.fit: the training steps over the batches of the data
fit(model, model_data) ==
    _train_losses_scores(model, get_signature(model_data))

\* DIET.build_for_predict
build_for_predict(model) == [model EXCEPT !.all_labels_embed = "built"]

\* DIET.predict: `output` is what the weights make of the batch, the scores
\* of the labels and the tag ids of the tokens
predict(model, batch_in, output) ==
    IF "text_mask" \notin DOMAIN batch_in
    THEN [raised |-> "KeyError", error |-> "text_mask"]
    ELSE IF /\ model.config.perform_intent_classification
            /\ ~ (HasAttribute(model, "_embed")
                  /\ HasAttribute(model, "_loss_label"))
    THEN [raised |-> "AttributeError", error |-> "_embed"]
    ELSE IF /\ model.config.perform_entity_recognition
            /\ ~ (HasAttribute(model, "_embed")
                  /\ HasAttribute(model, "_crf"))
    THEN [raised |-> "AttributeError", error |-> "_embed"]
    ELSE [raised |-> "none",
          out |-> [keys |->
                      (IF model.config.perform_intent_classification
                       THEN {"i_scores"} ELSE {})
                      \cup
                      (IF model.config.perform_entity_recognition
                       THEN {"e_ids"} ELSE {}),
                   i_scores |->
                      IF model.config.perform_intent_classification
                      THEN output.i_scores ELSE <<>>,
                   e_ids |->
                      IF model.config.perform_entity_recognition
                      THEN output.e_ids ELSE <<>>]]

(***************************************************************************)
(* EmbeddingIntentClassifier.train                                         *)
(***************************************************************************)
\* {k: [v[:1] for v in vs] for k, vs in model_data.items()}
FirstExamples(model_data) ==
    [key \in {k \in DOMAIN model_data : model_data[k] # <<>>} |->
        [v \in 1..Len(model_data[key]) |->
            SubSeq(model_data[key][v], 1, 1)]]

\* the end of train, from `self.model = DIET(...)` on
BuildAndFit(self5, model_data) ==
    LET built == DIET(get_signature(model_data), self5._label_data,
                      self5.inverted_tag_dict, self5.component_config)
        self6 == [self5 EXCEPT !.model = built.model]
        fitted == fit(built.model, model_data)
    IN  IF built.raised # "none"
        THEN [raised |-> built.raised, error |-> built.error,
              self |-> self5, step |-> "DIET"]
        ELSE IF fitted.raised # "none"
        THEN [raised |-> fitted.raised, error |-> fitted.error,
              self |-> self6, step |-> "fit"]
        ELSE [raised |-> "none",
              self |-> [self6 EXCEPT !.model = fitted.model],
              step |-> "fitted"]

\* train after preprocess_train_data returned or raised `prepared`
TrainPrepared(self, prepared) ==
    IF prepared.raised # "none"
    THEN [raised |-> prepared.raised, error |-> prepared.error,
          self |-> prepared.self, step |-> "preprocess_train_data"]
    ELSE IF /\ self.component_config.perform_intent_classification
            /\ ~ _check_enough_labels(prepared.model_data)
    THEN [raised |-> "none", self |-> prepared.self, step |-> "skipped"]
    ELSE BuildAndFit([prepared.self EXCEPT
                         !.data_example = FirstExamples(prepared.model_data)],
                     prepared.model_data)

\* train: `self` is the instance as the call leaves it, also when it raises
train(self, training_data) ==
    TrainPrepared(self, preprocess_train_data(self, training_data))

(***************************************************************************)
(* Prediction: _predict, _predict_label, _predict_entities and process.    *)
(***************************************************************************)
\* rasa.nlu.classifiers.LABEL_RANKING_LENGTH
LABEL_RANKING_LENGTH == 10

\* how numpy orders equal scores in argsort: it does not promise an order
TieOrders == {"low index first", "high index first"}

RECURSIVE ArgsortFrom(_, _, _)
\* numpy argsort of the scores at the positions `rest`: ascending, 1-based
ArgsortFrom(sim, rest, ties) ==
    IF rest = {} THEN <<>>
    ELSE LET first ==
                 CHOOSE i \in rest :
                     \A j \in rest :
                         \/ sim[i] < sim[j]
                         \/ /\ sim[i] = sim[j]
                            /\ IF ties = "low index first"
                               THEN i <= j ELSE i >= j
         IN  <<first>> \o ArgsortFrom(sim, rest \ {first}, ties)

\* seq[::-1]
Reversed(seq) == [k \in 1..Len(seq) |-> seq[Len(seq) + 1 - k]]

\* message_sim.argsort() as label ids, without the reversal
ArgsortReversed_ascending(sim, ties) ==
    LET order == ArgsortFrom(sim, 1..Len(sim), ties)
    IN  [k \in 1..Len(order) |-> order[k] - 1]

\* message_sim.argsort()[::-1] as label ids, which count from 0
ArgsortReversed(sim, ties) ==
    LET order == Reversed(ArgsortFrom(sim, 1..Len(sim), ties))
    IN  [k \in 1..Len(order) |-> order[k] - 1]

RECURSIVE InsertSorted(_, _)
\* a value put into an ascending sequence
InsertSorted(seq, x) ==
    IF seq = <<>> THEN <<x>>
    ELSE IF x <= seq[1] THEN <<x>> \o seq
    ELSE <<seq[1]>> \o InsertSorted(Tail(seq), x)

RECURSIVE SortAscending(_)
SortAscending(seq) ==
    IF seq = <<>> THEN <<>>
    ELSE InsertSorted(SortAscending(Tail(seq)), seq[1])

\* message_sim.sort(): the array itself sorted ascending in place
SortedInPlace(sim) == SortAscending(sim)

\* message_sim[::-1].sort(): the reversed view is sorted ascending in place,
\* which leaves the array itself descending
SortedInPlaceReversed(sim) == Reversed(SortAscending(sim))

\* the label and ranking _predict_label starts from
NoLabel == [name |-> "None", confidence |-> 0]

\* _predict_label without the test of self.model
_predict_label_unguarded(self, out, ties) ==
    IF out = None THEN [raised |-> "TypeError", error |-> "out is None"]
    ELSE [raised |-> "none", label |-> NoLabel, label_ranking |-> <<>>]

\* _predict_label
_predict_label(self, out, ties) ==
    IF self.model = None
    THEN [raised |-> "none", label |-> NoLabel, label_ranking |-> <<>>]
    ELSE IF out = None
    THEN [raised |-> "TypeError", error |-> "out is None"]
    ELSE IF "i_scores" \notin out.keys
    THEN [raised |-> "KeyError", error |-> "i_scores"]
    ELSE LET label_ids == ArgsortReversed(out.i_scores, ties)
             message_sim == SortedInPlaceReversed(out.i_scores)
             ranking ==
                 SubSeq([k \in 1..Len(label_ids) |->
                            <<label_ids[k], message_sim[k]>>],
                        1, Min(LABEL_RANKING_LENGTH, Len(label_ids)))
         IN  IF Len(label_ids) > 0
             THEN IF self.inverted_label_dict = None
                  THEN [raised |-> "TypeError",
                        error |-> "inverted_label_dict is None"]
                  ELSE IF \E k \in 1..Len(ranking) :
                              ranking[k][1] \notin
                                  DOMAIN self.inverted_label_dict.dict
                  THEN [raised |-> "KeyError",
                        error |-> "inverted_label_dict"]
                  ELSE [raised |-> "none",
                        label |->
                            [name |->
                                self.inverted_label_dict.dict[label_ids[1]],
                             confidence |-> message_sim[1]],
                        label_ranking |->
                            [k \in 1..Len(ranking) |->
                                [name |->
                                    self.inverted_label_dict.dict[
                                        ranking[k][1]],
                                 confidence |-> ranking[k][2]]]]
             ELSE [raised |-> "none", label |-> NoLabel,
                   label_ranking |-> <<>>]

\* EntityExtractor.add_extractor_name: the extractor is the component
add_extractor_name(entities) ==
    [k \in 1..Len(entities) |->
        [entities[k] EXCEPT !.extractor = "EmbeddingIntentClassifier"]]

\* _predict_entities
_predict_entities(self, out, message) ==
    IF self.model = None THEN [raised |-> "none", entities |-> <<>>]
    ELSE IF out = None
    THEN [raised |-> "TypeError", error |-> "out is None"]
    ELSE IF "e_ids" \notin out.keys
    THEN [raised |-> "KeyError", error |-> "e_ids"]
    ELSE IF self.inverted_tag_dict = None
    THEN [raised |-> "TypeError", error |-> "inverted_tag_dict is None"]
    ELSE IF \E t \in 1..Len(out.e_ids) :
                out.e_ids[t] \notin DOMAIN self.inverted_tag_dict.dict
    THEN [raised |-> "KeyError", error |-> "inverted_tag_dict"]
    ELSE LET tags == [t \in 1..Len(out.e_ids) |->
                        self.inverted_tag_dict.dict[out.e_ids[t]]]
             extracted ==
                 add_extractor_name(
                     _convert_tags_to_entities(message.text, message.tokens,
                                               tags))
         IN  [raised |-> "none", entities |-> message.entities \o extracted]

\* the predict function on the batch of the model data of the message
PredictBatch(self, created, output) ==
    IF created.raised # "none" THEN created
    ELSE predict(self.model, get_signature(created.model_data), output)

\* _predict: None without a model or a predict function, else what the
\* predict function makes of the message's batch
_predict(self, message, output) ==
    IF self.model = None \/ self.predict_func = None
    THEN [raised |-> "none", out |-> None]
    ELSE PredictBatch(self,
                      _create_model_data(self, <<message>>, None, None,
                                         "None"),
                      output)

\* Message.set(prop, info, add_to_output=True)
Set(message, prop, info) ==
    [message EXCEPT ![prop] = info,
                    !.output_properties = @ \cup {prop}]

\* process after _predict returned or raised `predicted`
ProcessPredicted(self, message, predicted, ties) ==
    LET labelled == _predict_label(self, predicted.out, ties)
        message1 ==
            IF self.component_config.perform_intent_classification
            THEN Set(Set(message, "intent", labelled.label),
                     "intent_ranking", labelled.label_ranking)
            ELSE message
        tagged == _predict_entities(self, predicted.out, message1)
        message2 ==
            IF self.component_config.perform_entity_recognition
            THEN Set(message1, "entities", tagged.entities)
            ELSE message1
    IN  IF predicted.raised # "none"
        THEN [raised |-> predicted.raised, error |-> predicted.error,
              message |-> message]
        ELSE IF /\ self.component_config.perform_intent_classification
                /\ labelled.raised # "none"
        THEN [raised |-> labelled.raised, error |-> labelled.error,
              message |-> message]
        ELSE IF /\ self.component_config.perform_entity_recognition
                /\ tagged.raised # "none"
        THEN [raised |-> tagged.raised, error |-> tagged.error,
              message |-> message1]
        ELSE [raised |-> "none", message |-> message2,
              out |-> predicted.out]

\* process: `message` is the message as the call leaves it
process(self, message, output, ties) ==
    ProcessPredicted(self, message, _predict(self, message, output), ties)

(***************************************************************************)
(* persist and load.  The model directory holds the files persist wrote,   *)
(* None when it wrote none, next to the metadata of the component: its     *)
(* configuration and the file name persist returned.                       *)
(***************************************************************************)
\* persist: the returned file name and the files written
persist(self, file_name) ==
    IF self.model = None THEN [file |-> "None", files |-> None]
    ELSE [file |-> file_name,
          files |-> [weights |-> self.model.weights,
                     data_example |-> self.data_example,
                     label_data |-> self._label_data,
                     inv_label_dict |-> self.inverted_label_dict,
                     inv_tag_dict |-> self.inverted_tag_dict]]

\* the model directories load is called with: none, "" and a path
ModelDirs == {"None", "", "models"}

\* load: the instance, or the error raised
load(meta, model_dir, files) ==
    IF model_dir = "None" \/ model_dir = "" \/ meta.file = "None"
    THEN IF model_dir = "None"
         THEN [raised |-> "TypeError", error |-> "os.path.abspath(None)"]
         ELSE __init__(meta.component_config, None, None, None, None)
    ELSE IF files = None
    THEN [raised |-> "FileNotFoundError", error |-> "data_example.pkl"]
    ELSE LET model_data_example ==
                 IF files.data_example = None THEN [key \in {} |-> <<>>]
                 ELSE files.data_example
             config == [meta.component_config EXCEPT
                           !.similarity_type =
                               ResolveSimilarityType(meta.component_config)]
             built == DIET(get_signature(model_data_example),
                           files.label_data, files.inv_tag_dict, config)
             fitted == fit(built.model, model_data_example)
             text_keys == DOMAIN model_data_example
                              \cap {"text_features", "text_mask"}
             loaded ==
                 build_for_predict(
                     [fitted.model EXCEPT
                         !.weights = files.weights,
                         !.training = FALSE,
                         !.data_signature =
                             [k \in text_keys |->
                                 Len(model_data_example[k])]])
             predicted ==
                 predict(loaded, loaded.data_signature,
                         [i_scores |-> <<>>, e_ids |-> <<>>])
         IN  IF built.raised # "none" THEN built
             ELSE IF fitted.raised # "none" THEN fitted
             ELSE IF predicted.raised # "none"
             THEN [raised |-> predicted.raised, error |-> predicted.error]
             ELSE __init__(config, files.inv_label_dict, files.inv_tag_dict,
                           loaded, [func |-> "predict"])

(***************************************************************************)
(* The corpora the data preparation is checked on.                         *)
(***************************************************************************)
\* an example of text "a" with the tokens "a" and __CLS__
ExampleTokens == <<[start |-> 0, end |-> 1], [start |-> 2, end |-> 3]>>

\* the features a featurizer attaches: `variant` says which of the two
\* matrices exist and whether their sequence lengths agree
Features(variant, kind, rows, of) ==
    IF variant = "none" \/ (variant = "sparse" /\ kind = "dense")
                        \/ (variant = "dense" /\ kind = "sparse")
    THEN None
    ELSE [rows |-> IF variant = "mismatch" /\ kind = "dense"
                   THEN rows + 1 ELSE rows,
          dim |-> IF kind = "sparse" THEN SparseDim ELSE DenseDim,
          of |-> of]

\* the example with the given intent, the given entity annotated over its
\* first token ("none" for no annotation) and the given feature variants
MkExample(intent, entity, text_variant, label_variant) ==
    [text |-> TextOf(1),
     intent |-> intent,
     entities |-> IF entity = "none" THEN <<>>
                  ELSE <<[entity |-> entity, start |-> 0, end |-> 1]>>,
     tokens |-> ExampleTokens,
     text_sparse_features |->
        Features(text_variant, "sparse", Len(ExampleTokens), "text"),
     text_dense_features |->
        Features(text_variant, "dense", Len(ExampleTokens), "text"),
     intent_sparse_features |->
        IF intent = "None" THEN None
        ELSE Features(label_variant, "sparse", 1, intent),
     intent_dense_features |->
        IF intent = "None" THEN None
        ELSE Features(label_variant, "dense", 1, intent)]

Intents == {"None"} \cup IntentNames

\* which feature matrices the text and the label of an example come with
TextVariants == {"sparse", "dense", "both", "mismatch"}

LabelVariants == {"none", "dense", "both", "mismatch"}

\* examples that differ in what they are labelled and annotated with
DictExamples ==
    {MkExample(intent, entity, "both", "none") :
        intent \in Intents, entity \in {"none"} \cup TagNames}

\* examples that differ in the features they carry: every variant of the
\* text features, and every variant of the label features of a labelled one
FeatureExamples ==
    {MkExample(intent, "none", text_variant, "both") :
        intent \in Intents, text_variant \in TextVariants}
    \cup
    {MkExample(intent, "none", "both", label_variant) :
        intent \in IntentNames, label_variant \in LabelVariants}

SeqsUpTo(S, n) == UNION {[1..k -> S] : k \in 0..n}

DictCorpora == SeqsUpTo(DictExamples, MaxDictExamples)

FeatureCorpora == SeqsUpTo(FeatureExamples, MaxFeatureExamples)

\* the instance __init__ makes of a configuration that passes its check
Fresh(component_config) ==
    __init__(component_config, None, None, None, None).self

(***************************************************************************)
(* The tag conversion on its own: every text, token list and tag list.     *)
(***************************************************************************)
NoCall == [op |-> "none"]

InitTags ==
    /\ component = None
    /\ corpus = <<>>
    /\ predict_out = None
    /\ disk = None
    /\ \E n \in 0..TextLen, ts \in TokenSeqs :
          msg = [text |-> TextOf(n), tokens |-> ts]
    /\ ret = NoCall

ConvertTags(tags) ==
    /\ ret' = [op |-> "_convert_tags_to_entities",
               text |-> msg.text,
               tokens |-> msg.tokens,
               tags |-> tags,
               value |-> _convert_tags_to_entities(msg.text, msg.tokens,
                                                   tags)]
    /\ UNCHANGED <<component, msg, corpus, predict_out, disk>>

NextTags == \E tags \in TagSeqs : ConvertTags(tags)

SpecTags == InitTags /\ [][NextTags]_vars

(***************************************************************************)
(* The data preparation on its own: preprocess_train_data and              *)
(* _extract_and_add_features on every corpus, by a fresh instance.         *)
(***************************************************************************)
PrepConfigs ==
    {[defaults EXCEPT !.share_hidden_layers = share] : share \in BOOLEAN}

InitPrep(corpora) ==
    /\ \E config \in PrepConfigs : component = Fresh(config)
    /\ corpus \in corpora
    /\ msg = None
    /\ predict_out = None
    /\ disk = None
    /\ ret = NoCall

ExtractAndAddFeatures(i, attribute) ==
    /\ i \in 1..Len(corpus)
    /\ ret' = [op |-> "_extract_and_add_features",
               message |-> corpus[i],
               attribute |-> attribute,
               result |-> _extract_and_add_features(corpus[i], attribute)]
    /\ UNCHANGED <<component, msg, corpus, predict_out, disk>>

PreprocessTrainData ==
    LET result == preprocess_train_data(component, corpus)
    IN  /\ component' = result.self
        /\ ret' = [op |-> "preprocess_train_data",
                   self |-> component,
                   result |-> result]
        /\ UNCHANGED <<msg, corpus, predict_out, disk>>

NextPrep ==
    \/ \E i \in 1..Len(corpus), attribute \in {"text", "intent"} :
          ExtractAndAddFeatures(i, attribute)
    \/ PreprocessTrainData

SpecDicts == InitPrep(DictCorpora) /\ [][NextPrep]_vars

SpecFeatures == InitPrep(FeatureCorpora) /\ [][NextPrep]_vars

(***************************************************************************)
(* Construction on its own: __init__ on every configuration.               *)
(***************************************************************************)
InitConfig ==
    /\ component = None
    /\ msg = None
    /\ corpus = <<>>
    /\ predict_out = None
    /\ disk = None
    /\ ret = NoCall

Construct(component_config) ==
    LET result == __init__(component_config, None, None, None, None)
    IN  /\ component = None
        /\ component' = IF result.raised = "none" THEN result.self ELSE None
        /\ ret' = [op |-> "__init__",
                   component_config |-> component_config,
                   result |-> result]
        /\ UNCHANGED <<msg, corpus, predict_out, disk>>

NextConfig == \E component_config \in Configs : Construct(component_config)

SpecConfig == InitConfig /\ [][NextConfig]_vars

(***************************************************************************)
(* The ranking on its own: _predict_label on every score vector, by an     *)
(* instance constructed with a model over n labels.                        *)
(***************************************************************************)
\* the levels a score takes
ScoreValues == {0, 1}

\* the name of the label with the given id
LabelNameOf(i) == "intent_" \o ToString(i)

\* the instance __init__ makes of a model with n labels and its dictionaries
Constructed(n) ==
    LET inverted_label_dict == [dict |-> [i \in 0..(n - 1) |-> LabelNameOf(i)]]
        inverted_tag_dict == [dict |-> InvertDict(_create_tag_id_dict(<<>>))]
        config == Fresh(defaults).component_config
        model == DIET([text_features |-> 2, text_mask |-> 1,
                       label_features |-> 2, label_ids |-> 1],
                      None, inverted_tag_dict, config).model
    IN  __init__(config, inverted_label_dict, inverted_tag_dict, model,
                 [func |-> "predict"]).self

InitRank ==
    /\ \E n \in 0..MaxLabels :
          /\ component = Constructed(n)
          /\ \E scores \in [1..n -> ScoreValues] :
                predict_out = [keys |-> {"i_scores"},
                               i_scores |-> scores,
                               e_ids |-> <<>>]
    /\ msg = None
    /\ corpus = <<>>
    /\ disk = None
    /\ ret = NoCall

PredictLabel(ties) ==
    /\ ret' = [op |-> "_predict_label",
               out |-> predict_out,
               ties |-> ties,
               result |-> _predict_label(component, predict_out, ties)]
    /\ UNCHANGED <<component, msg, corpus, predict_out, disk>>

NextRank == \E ties \in TieOrders : PredictLabel(ties)

SpecRank == InitRank /\ [][NextRank]_vars

(***************************************************************************)
(* The life of an instance: constructed, then trained, asked to process    *)
(* messages, persisted and loaded in any order.                            *)
(***************************************************************************)
\* which objectives the instance is configured with
LifeConfigs ==
    {[defaults EXCEPT !.perform_intent_classification = intent,
                      !.perform_entity_recognition = entity,
                      !.use_masked_language_model = masked] :
        intent \in BOOLEAN, entity \in BOOLEAN, masked \in BOOLEAN}

\* training data with no, one and two intents
LifeCorpora ==
    {<<MkExample("None", "A", "both", "both")>>,
     <<MkExample("greet", "A", "both", "both")>>,
     <<MkExample("greet", "A", "both", "both"),
       MkExample("bye", "none", "both", "both")>>}

\* the message process is called with: featurized and tokenized text, and
\* the entities an earlier extractor of the pipeline found
ProcessMessage(entities) ==
    [text |-> TextOf(TextLen),
     tokens |-> ExampleTokens,
     entities |-> entities,
     intent |-> None,
     intent_ranking |-> None,
     output_properties |-> {},
     text_sparse_features |->
        Features("both", "sparse", Len(ExampleTokens), "text"),
     text_dense_features |->
        Features("both", "dense", Len(ExampleTokens), "text"),
     intent_sparse_features |-> None,
     intent_dense_features |-> None]

PriorEntity ==
    [entity |-> "P", start |-> 0, end |-> 1,
     extractor |-> "CRFEntityExtractor",
     value |-> PySlice(TextOf(TextLen), 0, 1)]

LifeMessages == {ProcessMessage(<<>>), ProcessMessage(<<PriorEntity>>)}

\* what the weights make of a message
LifeOutputs == {[i_scores |-> <<0, 1>>, e_ids |-> <<1, 0>>]}

Init ==
    /\ \E component_config \in LifeConfigs :
          component = Fresh(component_config)
    /\ msg = None
    /\ corpus = <<>>
    /\ predict_out = None
    /\ disk = None
    /\ ret = NoCall

Train(training_data) ==
    LET result == train(component, training_data)
    IN  /\ component' = result.self
        /\ corpus' = training_data
        /\ ret' = [op |-> "train", self |-> component, result |-> result]
        /\ UNCHANGED <<msg, predict_out, disk>>

Process(message, output, ties) ==
    LET result == process(component, message, output, ties)
    IN  /\ msg' = result.message
        /\ predict_out' = IF result.raised = "none" THEN result.out ELSE None
        /\ ret' = [op |-> "process", self |-> component,
                   message |-> message, raised |-> result.raised]
        /\ UNCHANGED <<component, corpus, disk>>

Persist ==
    LET result == persist(component, "component_EmbeddingIntentClassifier")
    IN  /\ disk' = [meta |-> [component_config |->
                                  component.component_config,
                              file |-> result.file],
                    files |-> result.files]
        /\ ret' = [op |-> "persist", self |-> component,
                   file |-> result.file]
        /\ UNCHANGED <<component, msg, corpus, predict_out>>

Load(model_dir) ==
    LET result == load(disk.meta, model_dir, disk.files)
    IN  /\ disk # None
        /\ component' = IF result.raised = "none" THEN result.self
                        ELSE component
        /\ ret' = [op |-> "load", meta |-> disk.meta,
                   model_dir |-> model_dir, raised |-> result.raised,
                   error |-> IF result.raised = "none" THEN "none"
                             ELSE result.error]
        /\ UNCHANGED <<msg, corpus, predict_out, disk>>

Next ==
    \/ \E training_data \in LifeCorpora : Train(training_data)
    \/ \E message \in LifeMessages, output \in LifeOutputs,
          ties \in TieOrders : Process(message, output, ties)
    \/ Persist
    \/ \E model_dir \in ModelDirs : Load(model_dir)

Spec == Init /\ [][Next]_vars

(***************************************************************************)
(* The similarity type through the lifecycle: construction on every        *)
(* similarity and loss type, training, persisting, and load on metadata    *)
(* that carries any similarity type.                                       *)
(***************************************************************************)
SimilarityConfigs ==
    {[defaults EXCEPT !.similarity_type = similarity_type,
                      !.loss_type = loss_type,
                      !.perform_intent_classification = enabled,
                      !.perform_entity_recognition = enabled] :
        similarity_type \in {"auto", "cosine", "inner"},
        loss_type \in {"softmax", "margin"},
        enabled \in BOOLEAN}

SimilarityCorpora == {training_data \in LifeCorpora : Len(training_data) = 2}

InitSimilarity ==
    /\ \E component_config \in SimilarityConfigs :
          /\ component = Fresh(component_config)
          /\ ret = [op |-> "__init__", component_config |-> component_config]
    /\ msg = None
    /\ corpus = <<>>
    /\ predict_out = None
    /\ disk = None

\* load on the metadata of the model directory with the given similarity type
LoadMeta(similarity_type) ==
    LET meta == [disk.meta EXCEPT
                    !.component_config.similarity_type = similarity_type]
        result == load(meta, "models", disk.files)
    IN  /\ disk # None
        /\ component' = IF result.raised = "none" THEN result.self
                        ELSE component
        /\ ret' = [op |-> "load", meta |-> meta, model_dir |-> "models",
                   raised |-> result.raised,
                   error |-> IF result.raised = "none" THEN "none"
                             ELSE result.error]
        /\ UNCHANGED <<msg, corpus, predict_out, disk>>

NextSimilarity ==
    \/ \E training_data \in SimilarityCorpora : Train(training_data)
    \/ Persist
    \/ \E similarity_type \in {"auto", "cosine", "inner"} :
          LoadMeta(similarity_type)

SpecSimilarity == InitSimilarity /\ [][NextSimilarity]_vars

(***************************************************************************)
(* The masked-LM selection on its own: a batch of padded sequences, the    *)
(* positions the input mask layer drew, and the selection _mask_loss       *)
(* makes of them.  Every sequence holds at least its CLS token.            *)
(***************************************************************************)
\* the padded length of a batch: that of its longest sequence
RECURSIVE PaddedLen(_)
PaddedLen(sequence_lengths) ==
    Max(Max(sequence_lengths[1], 0),
        IF Len(sequence_lengths) = 1 THEN 0
        ELSE PaddedLen(Tail(sequence_lengths)))

\* the mask of a batch: true at the tokens, false at the padding
MaskOf(sequence_lengths) ==
    [b \in 1..Len(sequence_lengths) |->
        [t \in 1..PaddedLen(sequence_lengths) |-> t <= sequence_lengths[b]]]

\* what the input mask layer may draw: any of the tokens, none of the padding
Draws(mask) ==
    {lm_mask_bool \in [1..Len(mask) -> [1..Len(mask[1]) -> BOOLEAN]] :
        \A b \in 1..Len(mask) : \A t \in 1..Len(mask[1]) :
            lm_mask_bool[b][t] => mask[b][t]}

InitMask ==
    /\ \E sequence_lengths \in [1..MaskBatch -> 1..MaskSeqLen] :
          \E lm_mask_bool \in Draws(MaskOf(sequence_lengths)) :
             predict_out = [mask |-> MaskOf(sequence_lengths),
                            lm_mask_bool |-> lm_mask_bool]
    /\ component = None
    /\ msg = None
    /\ corpus = <<>>
    /\ disk = None
    /\ ret = NoCall

MaskLoss ==
    /\ ret' = [op |-> "_mask_loss",
               lm_mask_bool |-> AtLeastOneMasked(predict_out.lm_mask_bool)]
    /\ UNCHANGED <<component, msg, corpus, predict_out, disk>>

\* the positions a training step derives from the mask of its batch
TrainPositions ==
    /\ ret' = [op |-> "_train_losses_scores",
               last_index |-> TrainLastIndex(predict_out.mask),
               crf_lengths |-> EntityLossLengths(predict_out.mask)]
    /\ UNCHANGED <<component, msg, corpus, predict_out, disk>>

\* the positions predict derives from the mask of its batch
PredictPositions ==
    /\ ret' = [op |-> "predict",
               last_index |-> PredictLastIndex(predict_out.mask),
               crf_lengths |-> PredictCrfLengths(predict_out.mask)]
    /\ UNCHANGED <<component, msg, corpus, predict_out, disk>>

NextMask == MaskLoss \/ TrainPositions \/ PredictPositions

SpecMask == InitMask /\ [][NextMask]_vars

(***************************************************************************)
(* C1: _convert_tags_to_entities returns exactly one entity per maximal    *)
(* run of consecutive tokens carrying the same non-"O" tag, in token       *)
(* order; the entity has the run's tag, the start offset of the run's      *)
(* first token, the end offset of the run's last token and the value       *)
(* text[start:end].  "O" tokens give no entity and a direct change between *)
(* two non-"O" tags starts a new entity.                                   *)
(***************************************************************************)
\* positions of the zipped tags at which a maximal run of a non-"O" tag starts
RunStarts(tags, n) ==
    {i \in 1..n : tags[i] # "O" /\ (i = 1 \/ tags[i - 1] # tags[i])}

\* the last position of the maximal run that starts at i
RunEnd(tags, n, i) ==
    CHOOSE j \in i..n :
        /\ \A k \in i..j : tags[k] = tags[i]
        /\ j = n \/ tags[j + 1] # tags[i]

C1_OneEntityPerRun ==
    ret.op = "_convert_tags_to_entities" =>
        LET n == Min(Len(ret.tokens), Len(ret.tags))
            starts == RunStarts(ret.tags, n)
        IN  /\ Len(ret.value) = Cardinality(starts)
            /\ \A k \in 1..Len(ret.value) :
                  LET s == KthOf(starts, k)
                      e == RunEnd(ret.tags, n, s)
                      entity == ret.value[k]
                  IN  /\ entity.entity = ret.tags[s]
                      /\ entity.start = ret.tokens[s].start
                      /\ entity.end = ret.tokens[e].end
                      /\ entity.value =
                            PySlice(ret.text, entity.start, entity.end)

\* a two-token run followed directly by a different tag, then by "O" ... and
\* a run after an "O": tags [A, A, P] and [A, O, A] both converted
C1_Witness ==
    /\ ret.op = "_convert_tags_to_entities"
    /\ Len(ret.tokens) = 3
    /\ ret.tags \in {<<"A", "A", "P">>, <<"A", "O", "A">>}
    /\ Len(ret.value) = 2
    /\ ret.value[1].value # <<>>

(***************************************************************************)
(* C2: entities are appended, never replaced: whatever state the instance  *)
(* is in, with entity recognition enabled the entities of the message      *)
(* after process begin with the entities it had before the call, in their  *)
(* order, and only entities extracted by this component follow them.       *)
(***************************************************************************)
IsPrefix(a, b) == Len(a) <= Len(b) /\ SubSeq(b, 1, Len(a)) = a

C2_EntitiesAppendedNeverReplaced ==
    (/\ ret.op = "process"
     /\ ret.self.component_config.perform_entity_recognition)
    => /\ IsPrefix(ret.message.entities, msg.entities)
       /\ \A k \in (Len(ret.message.entities) + 1)..Len(msg.entities) :
             msg.entities[k].extractor = "EmbeddingIntentClassifier"

(***************************************************************************)
(* C3: for every score vector of the model the intent ranking that         *)
(* _predict_label returns is sorted by non-increasing confidence, and is   *)
(* no longer than LABEL_RANKING_LENGTH and than the number of labels.      *)
(***************************************************************************)
C3_RankingSortedAndCapped ==
    (ret.op = "_predict_label" /\ ret.result.raised = "none")
    => LET ranking == ret.result.label_ranking
       IN  /\ \A k \in 1..(Len(ranking) - 1) :
                 ranking[k].confidence >= ranking[k + 1].confidence
           /\ Len(ranking) <= LABEL_RANKING_LENGTH
           /\ Len(ranking) <=
                  Cardinality(DOMAIN component.inverted_label_dict.dict)

\* more labels than the ranking holds, of different confidence
C3_Witness ==
    /\ ret.op = "_predict_label"
    /\ ret.result.raised = "none"
    /\ Len(ret.out.i_scores) > LABEL_RANKING_LENGTH
    /\ Len(ret.result.label_ranking) = LABEL_RANKING_LENGTH
    /\ ret.result.label_ranking[1].confidence
           > ret.result.label_ranking[LABEL_RANKING_LENGTH].confidence

(***************************************************************************)
(* C4: after preprocess_train_data the label and tag dictionaries are      *)
(* bijections: inverted_label_dict[label_id_dict[name]] = name for every   *)
(* observed intent label, inverted_tag_dict[tag_id_dict[tag]] = tag for    *)
(* every observed entity tag, no two names share an id, and tag id 0 maps  *)
(* to the outside tag "O".                                                 *)
(***************************************************************************)
ObservedLabels == {corpus[i].intent : i \in 1..Len(corpus)} \ {"None"}

ObservedTags ==
    UNION {{corpus[i].entities[j].entity : j \in 1..Len(corpus[i].entities)}
           : i \in 1..Len(corpus)}

Injective(f) == \A a, b \in DOMAIN f : f[a] = f[b] => a = b

Prepared == ret.op = "preprocess_train_data" /\ ret.result.raised = "none"

C4_DictionariesAreBijections ==
    Prepared =>
        LET label_id_dict == ret.result.label_id_dict
            tag_id_dict == ret.result.tag_id_dict
            inverted_label_dict == component.inverted_label_dict.dict
            inverted_tag_dict == component.inverted_tag_dict.dict
        IN  /\ \A name \in ObservedLabels :
                  /\ name \in DOMAIN label_id_dict
                  /\ label_id_dict[name] \in DOMAIN inverted_label_dict
                  /\ inverted_label_dict[label_id_dict[name]] = name
            /\ \A tag \in ObservedTags :
                  /\ tag \in DOMAIN tag_id_dict
                  /\ tag_id_dict[tag] \in DOMAIN inverted_tag_dict
                  /\ inverted_tag_dict[tag_id_dict[tag]] = tag
            /\ Injective(label_id_dict)
            /\ Injective(tag_id_dict)
            /\ 0 \in DOMAIN inverted_tag_dict
            /\ inverted_tag_dict[0] = "O"

\* two labels, and an entity named "O" next to another entity
C4_Witness ==
    /\ Prepared
    /\ Cardinality(ObservedLabels) = 2
    /\ "O" \in ObservedTags
    /\ Cardinality(ObservedTags) = 2

(***************************************************************************)
(* C5, as claimed: whenever the model is None, process returns normally,   *)
(* sets the intent to {name: None, confidence: 0.0} and the intent ranking *)
(* to the empty list, and extracts no entities.                            *)
(***************************************************************************)
\* no entity of `after` that was not among `before`
NothingExtracted(before, after) ==
    \A k \in 1..Len(after) : \E j \in 1..Len(before) : after[k] = before[j]

C5_NeutralResultWithoutModel ==
    (ret.op = "process" /\ ret.self.model = None)
    => /\ ret.raised = "none"
       /\ "intent" \in msg.output_properties
       /\ msg.intent = NoLabel
       /\ "intent_ranking" \in msg.output_properties
       /\ msg.intent_ranking = <<>>
       /\ NothingExtracted(ret.message.entities, msg.entities)

(***************************************************************************)
(* C5, amended: whenever the model is None, process returns normally and   *)
(* extracts no entities; with intent classification enabled it sets the    *)
(* intent to {name: None, confidence: 0.0} and the intent ranking to the   *)
(* empty list, with intent classification disabled it sets neither.        *)
(***************************************************************************)
C5_NeutralResultWithoutModelWhenEnabled ==
    (ret.op = "process" /\ ret.self.model = None)
    => /\ ret.raised = "none"
       /\ NothingExtracted(ret.message.entities, msg.entities)
       /\ IF ret.self.component_config.perform_intent_classification
          THEN /\ "intent" \in msg.output_properties
               /\ msg.intent = NoLabel
               /\ "intent_ranking" \in msg.output_properties
               /\ msg.intent_ranking = <<>>
          ELSE /\ "intent" \notin msg.output_properties
               /\ "intent_ranking" \notin msg.output_properties

\* a message processed after a training that was skipped
C5_Witness ==
    /\ ret.op = "process"
    /\ ret.self.model = None
    /\ ret.self.inverted_label_dict # None
    /\ ret.self.component_config.perform_intent_classification
    /\ ret.raised = "none"
    /\ msg.intent = NoLabel

(***************************************************************************)
(* C6: with intent classification enabled and fewer than 2 distinct label  *)
(* ids in the training data, train returns without raising and the other   *)
(* enabled objectives are still trained: a model is built and fitted.      *)
(***************************************************************************)
DistinctLabelIds(examples) ==
    {examples[i].intent : i \in 1..Len(examples)} \ {"None"}

C6_OtherObjectivesStillTrained ==
    (/\ ret.op = "train"
     /\ ret.self.component_config.perform_intent_classification
     /\ Cardinality(DistinctLabelIds(corpus)) < 2)
    => /\ ret.result.raised = "none"
       /\ (\/ ret.self.component_config.perform_entity_recognition
           \/ ret.self.component_config.use_masked_language_model)
          => /\ component.model # None
             /\ component.model.weights = "fitted"

(***************************************************************************)
(* C7: a load whose model_dir is missing or empty, None included, or whose *)
(* meta has no "file", as persist returns it for an instance without a     *)
(* model, does not raise and returns a fresh instance: no model, no        *)
(* predict function.                                                       *)
(***************************************************************************)
C7_LoadWithoutArtifactsReturnsFresh ==
    (/\ ret.op = "load"
     /\ \/ ret.model_dir \in {"None", ""}
        \/ ret.meta.file = "None")
    => /\ ret.raised = "none"
       /\ component.model = None
       /\ component.predict_func = None

(***************************************************************************)
(* C8: constructing the component raises if and only if                    *)
(* share_hidden_layers is enabled and hidden_layers_sizes_text differs     *)
(* from hidden_layers_sizes_label.                                         *)
(***************************************************************************)
C8_RaisesIffSharedAndSizesDiffer ==
    ret.op = "__init__"
    => LET config == ret.component_config
       IN  (ret.result.raised # "none")
           <=> /\ config.share_hidden_layers
               /\ config.hidden_layers_sizes_text
                      # config.hidden_layers_sizes_label

\* a construction that raised on the conflict
C8_Witness ==
    /\ ret.op = "__init__"
    /\ ret.component_config.share_hidden_layers
    /\ ret.component_config.hidden_layers_sizes_text
           # ret.component_config.hidden_layers_sizes_label
    /\ ret.result.raised = "ValueError"
    /\ component = None

\* a construction with shared layers of equal sizes, which returned
C8_WitnessReturned ==
    /\ ret.op = "__init__"
    /\ ret.component_config.share_hidden_layers
    /\ ret.component_config.hidden_layers_sizes_text # <<>>
    /\ ret.result.raised = "none"
    /\ component # None

(***************************************************************************)
(* C9: _extract_and_add_features raises an error naming the message text   *)
(* and the attribute if and only if the message has both a sparse and a    *)
(* dense feature matrix for the attribute and their sequence lengths       *)
(* differ; otherwise it returns the two as they are on the message, None   *)
(* for an absent one.                                                      *)
(***************************************************************************)
Extracted == ret.op = "_extract_and_add_features"

SequenceLengthsDiffer(message, attribute) ==
    /\ message[SPARSE_FEATURE_NAMES[attribute]] # None
    /\ message[DENSE_FEATURE_NAMES[attribute]] # None
    /\ message[SPARSE_FEATURE_NAMES[attribute]].rows
            # message[DENSE_FEATURE_NAMES[attribute]].rows

C9_RaisesIffSequenceLengthsDiffer ==
    Extracted =>
        IF SequenceLengthsDiffer(ret.message, ret.attribute)
        THEN /\ ret.result.raised = "ValueError"
             /\ ret.result.text = ret.message.text
             /\ ret.result.attribute = ret.attribute
        ELSE /\ ret.result.raised = "none"
             /\ ret.result.sparse
                    = ret.message[SPARSE_FEATURE_NAMES[ret.attribute]]
             /\ ret.result.dense
                    = ret.message[DENSE_FEATURE_NAMES[ret.attribute]]

\* the error is raised for the label features of a message
C9_Witness ==
    /\ Extracted
    /\ ret.result.raised = "ValueError"
    /\ ret.attribute = "intent"

\* both matrices present, of different widths and equal lengths: returned
C9_WitnessReturned ==
    /\ Extracted
    /\ ret.result.raised = "none"
    /\ ret.result.sparse # None
    /\ ret.result.dense # None
    /\ ret.result.sparse.dim # ret.result.dense.dim

(***************************************************************************)
(* C10: once the model data is built, preprocess_train_data raises the     *)
(* configuration error if and only if share_hidden_layers is enabled and   *)
(* the feature dimension of text_features differs from that of             *)
(* label_features; with sharing disabled the two are not compared.         *)
(***************************************************************************)
SharedMismatch(result) ==
    result.raised = "ValueError" /\ result.error = "embeddings are shared"

C10_RaisesIffSharedAndDimensionsDiffer ==
    ret.op = "preprocess_train_data" =>
        IF "model_data" \in DOMAIN ret.result
        THEN SharedMismatch(ret.result) <=>
                /\ ret.self.component_config.share_hidden_layers
                /\ get_feature_dimension(ret.result.model_data,
                                         "text_features")
                     # get_feature_dimension(ret.result.model_data,
                                             "label_features")
        ELSE ret.result.raised # "none" /\ ~ SharedMismatch(ret.result)

\* the error is raised
C10_Witness ==
    /\ ret.op = "preprocess_train_data"
    /\ SharedMismatch(ret.result)

\* sharing is disabled, the dimensions differ and the data is returned
C10_WitnessNotCompared ==
    /\ Prepared
    /\ ~ ret.self.component_config.share_hidden_layers
    /\ get_feature_dimension(ret.result.model_data, "text_features")
         # get_feature_dimension(ret.result.model_data, "label_features")

(***************************************************************************)
(* C11: for every list of messages that _create_model_data accepts, every  *)
(* feature array it adds to the model data (each variant of text_features  *)
(* and label_features, label_ids, tag_ids) has as many examples as there   *)
(* are messages.                                                           *)
(***************************************************************************)
FeatureKeys == {"text_features", "label_features", "label_ids", "tag_ids"}

C11_AllArraysHoldEveryExample ==
    (/\ ret.op = "preprocess_train_data"
     /\ "model_data" \in DOMAIN ret.result)
    => \A key \in FeatureKeys :
          \A v \in 1..Len(ret.result.model_data[key]) :
             Len(ret.result.model_data[key][v]) = Len(corpus)

(***************************************************************************)
(* C12: in a training step with masked-LM enabled, every sequence of the   *)
(* batch that has a token has a true entry in the selection the loss uses, *)
(* and the entry forced when nothing was drawn is a token, not padding.    *)
(***************************************************************************)
C12_EverySequenceHasAMaskedToken ==
    ret.op = "_mask_loss"
    => /\ \A b \in 1..Len(predict_out.mask) :
             (\E t \in 1..Len(predict_out.mask[b]) : predict_out.mask[b][t])
             => \E t \in 1..Len(ret.lm_mask_bool[b]) : ret.lm_mask_bool[b][t]
       /\ \A b \in 1..Len(predict_out.mask) :
             \A t \in 1..Len(predict_out.mask[b]) :
                (ret.lm_mask_bool[b][t] /\ ~ predict_out.lm_mask_bool[b][t])
                => predict_out.mask[b][t]

(***************************************************************************)
(* C13: the label data built by _create_label_data holds exactly one       *)
(* feature row per distinct label in every feature variant it contains,    *)
(* row i representing the label whose id is i; when the example of some    *)
(* label has neither sparse nor dense label features the rows are those of *)
(* the identity matrix.                                                    *)
(***************************************************************************)
\* the first example of the corpus with the given intent
FirstExampleOf(label) ==
    corpus[CHOOSE i \in 1..Len(corpus) :
              /\ corpus[i].intent = label
              /\ \A j \in 1..(i - 1) : corpus[j].intent # label]

\* the row stands for the label with the given id
RowRepresents(row, names, id) ==
    \/ row.of = "eye" /\ row.hot = id
    \/ row.of # "eye" /\ row.of = names[id + 1]

C13_OneRowPerLabel ==
    (/\ ret.op = "preprocess_train_data"
     /\ ret.result.self._label_data # None)
    => LET label_features == ret.result.self._label_data.label_features
           names == sorted(DistinctLabelIds(corpus))
       IN  /\ \A v \in 1..Len(label_features) :
                 /\ Len(label_features[v]) = Len(names)
                 /\ \A i \in 1..Len(label_features[v]) :
                       RowRepresents(label_features[v][i], names, i - 1)
           /\ (\E label \in DistinctLabelIds(corpus) :
                  /\ FirstExampleOf(label).intent_sparse_features = None
                  /\ FirstExampleOf(label).intent_dense_features = None)
              => /\ Len(label_features) = 1
                 /\ \A i \in 1..Len(label_features[1]) :
                       /\ label_features[1][i].of = "eye"
                       /\ label_features[1][i].hot = i - 1
                       /\ label_features[1][i].dim = Len(names)

(***************************************************************************)
(* C14: the label and tag dictionaries are a function of the sets of       *)
(* distinct labels and tags of the corpus alone: a label's id is the       *)
(* number of distinct labels that sort before it, a tag's id is one more   *)
(* than the number of distinct tags that sort before it, and "O" has id 0. *)
(* Every run of preprocess_train_data on a corpus, whatever the order and  *)
(* the multiplicity of its examples and whatever the component prepared    *)
(* before, leaves these dictionaries.                                      *)
(***************************************************************************)
SortsBefore(names, name) == {other \in names : StrRank(other) < StrRank(name)}

C14_DictionariesDependOnNameSetsOnly ==
    Prepared =>
        /\ ret.result.label_id_dict =
               [label \in ObservedLabels |->
                   Cardinality(SortsBefore(ObservedLabels, label))]
        /\ ret.result.tag_id_dict =
               [tag \in ObservedTags \cup {"O"} |->
                   IF tag = "O" THEN 0
                   ELSE 1 + Cardinality(SortsBefore(ObservedTags, tag))]

\* the later label and the later tag come first in the corpus
C14_Witness ==
    /\ Prepared
    /\ Len(corpus) = 2
    /\ Cardinality(ObservedLabels) = 2
    /\ StrRank(corpus[1].intent) > StrRank(corpus[2].intent)
    /\ ObservedTags = {"A", "P"}
    /\ corpus[1].entities # <<>>
    /\ corpus[1].entities[1].entity = "P"
    /\ ret.result.label_id_dict[corpus[1].intent] = 1
    /\ ret.result.tag_id_dict["P"] = 2

\* the same label twice
C14_WitnessRepeated ==
    /\ Prepared
    /\ Len(corpus) = 2
    /\ corpus[1].intent = corpus[2].intent
    /\ DOMAIN ret.result.label_id_dict = {corpus[1].intent}

(***************************************************************************)
(* C15: process(message) sets intent and intent_ranking on the message if  *)
(* and only if intent classification is enabled, sets entities if and only *)
(* if entity recognition is enabled, changes no other field of the         *)
(* message, and leaves the component (model, predict function,             *)
(* dictionaries, label data) as it was.                                    *)
(***************************************************************************)
OwnedFields == {"intent", "intent_ranking", "entities", "output_properties"}

C15_ProcessWritesOnlyWhatItOwns ==
    ret.op = "process" =>
        LET component_config == ret.self.component_config
        IN  /\ "intent" \in msg.output_properties
                   <=> component_config.perform_intent_classification
            /\ "intent_ranking" \in msg.output_properties
                   <=> component_config.perform_intent_classification
            /\ "entities" \in msg.output_properties
                   <=> component_config.perform_entity_recognition
            /\ ~component_config.perform_intent_classification =>
                   /\ msg.intent = ret.message.intent
                   /\ msg.intent_ranking = ret.message.intent_ranking
            /\ ~component_config.perform_entity_recognition =>
                   msg.entities = ret.message.entities
            /\ \A field \in DOMAIN msg \ OwnedFields :
                   msg[field] = ret.message[field]
            /\ component = ret.self

(***************************************************************************)
(* C16: a training step updates the accumulators of exactly the enabled    *)
(* objectives: mask_loss and mask_acc iff use_masked_language_model,       *)
(* intent_loss and intent_acc iff perform_intent_classification,           *)
(* entity_loss and entity_f1 iff perform_entity_recognition; and the step  *)
(* of an enabled objective completes without error.                        *)
(***************************************************************************)
EnabledAccumulators(config) ==
    (IF config.use_masked_language_model
     THEN {"mask_loss", "mask_acc"} ELSE {})
    \cup (IF config.perform_intent_classification
          THEN {"intent_loss", "intent_acc"} ELSE {})
    \cup (IF config.perform_entity_recognition
          THEN {"entity_loss", "entity_f1"} ELSE {})

\* train reached the training steps of a model it built
StepTaken == ret.op = "train" /\ ret.result.step \in {"fit", "fitted"}

C16_EachEnabledObjectiveContributes ==
    StepTaken =>
        /\ ret.result.raised = "none"
        /\ component.model.updated =
               EnabledAccumulators(component.model.config)

(***************************************************************************)
(* C17: predict reads self._embed, self._loss_label and self._crf, and     *)
(* _mask_loss reads self._loss_mask; none of these names is assigned on a  *)
(* model or is a key of self._tf_layers, where layer preparation stores    *)
(* the layers.  So predict cannot complete with intent classification or   *)
(* entity recognition enabled: load, which calls the predict function on   *)
(* the persisted example, raises AttributeError, and a component holds a   *)
(* predict function only when both are disabled.                           *)
(***************************************************************************)
NamesRead == {"_embed", "_loss_label", "_crf", "_loss_mask"}

\* load found the files of an example DIET can be built from, and fitted
\* the model
LoadReachedPredict ==
    /\ ret.op = "load"
    /\ ret.model_dir = "models"
    /\ ret.meta.file # "None"
    /\ disk.files # None
    /\ disk.files.data_example # None
    /\ {"text_features", "label_features"}
           \subseteq DOMAIN disk.files.data_example
    /\ ~ret.meta.component_config.use_masked_language_model

C17_PredictReadsUnassignedNames ==
    /\ component.model # None =>
           /\ NamesRead \cap component.model.attributes = {}
           /\ NamesRead \cap component.model._tf_layers = {}
    /\ LoadReachedPredict =>
           IF \/ ret.meta.component_config.perform_intent_classification
              \/ ret.meta.component_config.perform_entity_recognition
           THEN ret.raised = "AttributeError" /\ ret.error \in NamesRead
           ELSE ret.raised = "none"
    /\ component.predict_func # None =>
           /\ ~component.component_config.perform_intent_classification
           /\ ~component.component_config.perform_entity_recognition

\* a trained and persisted intent classifier fails to load in predict
C17_Witness ==
    /\ LoadReachedPredict
    /\ ret.meta.component_config.perform_intent_classification
    /\ ret.raised = "AttributeError"
    /\ ret.error = "_embed"
    /\ component.model # None
    /\ "loss_label" \in component.model._tf_layers

(***************************************************************************)
(* C18: for a sequence with n non-padding positions a training step and    *)
(* predict both gather the _cls_ vector at position max(0, n - 1), which   *)
(* lies within the padded sequence and is its last non-padding position,   *)
(* and both hand the CRF the length n - 1, which leaves the _cls_ position *)
(* out of the tagging.                                                     *)
(***************************************************************************)
NonPadding(b) == {t \in 1..Len(predict_out.mask[b]) : predict_out.mask[b][t]}

Resolved(component_config) ==
    IF component_config.similarity_type # "auto"
    THEN component_config.similarity_type
    ELSE IF component_config.loss_type = "softmax" THEN "inner" ELSE "cosine"

C19_AutoSimilarityResolvedBeforeModel ==
    /\ ret.op = "__init__" =>
           component.component_config.similarity_type
               = Resolved(ret.component_config)
    /\ (ret.op = "load" /\ ret.raised = "none") =>
           component.component_config.similarity_type
               = Resolved(ret.meta.component_config)
    /\ component.component_config.similarity_type \in {"inner", "cosine"}
    /\ component.model # None =>
           component.model.config.similarity_type
               = component.component_config.similarity_type

\* load on metadata with "auto" and the margin loss built a cosine model
C19_Witness ==
    /\ ret.op = "load"
    /\ ret.raised = "none"
    /\ ret.meta.component_config.similarity_type = "auto"
    /\ ret.meta.component_config.loss_type = "margin"
    /\ component.model # None
    /\ component.model.config.similarity_type = "cosine"

\* construction with "auto" and the softmax loss, then a model trained
C19_WitnessTrained ==
    /\ ret.op = "train"
    /\ ret.self.component_config.loss_type = "softmax"
    /\ component.model # None
    /\ component.model.config.similarity_type = "inner"

(***************************************************************************)
(* C20: in every state reached by construction, train and load the         *)
(* component has a model if and only if it has a predict function; and     *)
(* process on an instance that holds a model returns without raising.      *)
(***************************************************************************)
C20_ModelIffPredictFunction ==
    /\ component.model # None <=> component.predict_func # None
    /\ (ret.op = "process" /\ ret.self.model # None) => ret.raised = "none"

(***************************************************************************)
(* C21: the model a component holds and the tag dictionary, label data and *)
(* num_tags it holds come from the same training run: the model was built  *)
(* from exactly the dictionary and the label data the component holds now. *)
(* A train call that is skipped or that raises while it prepares the data  *)
(* does not leave an earlier model next to overwritten dictionaries.       *)
(***************************************************************************)
C21_ModelAndDictionariesFromOneRun ==
    component.model # None =>
        /\ component.model.inverted_tag_dict = component.inverted_tag_dict
        /\ component._label_data # None =>
               /\ component.model.tf_label_data = component._label_data
               /\ component.model._num_tags = component.num_tags

(***************************************************************************)
(* C22: for every training corpus, one with an entity named "O" included,  *)
(* the ids of the tag dictionary are exactly 0..num_tags-1, where num_tags *)
(* is len(inverted_tag_dict): every id the tagger can predict has a name   *)
(* in inverted_tag_dict and every gold tag id is below num_tags.           *)
(***************************************************************************)
C22_TagIdsContiguous ==
    Prepared =>
        /\ component.num_tags
               = Cardinality(DOMAIN component.inverted_tag_dict.dict)
        /\ DOMAIN component.inverted_tag_dict.dict
               = 0..(component.num_tags - 1)
        /\ \A tag \in DOMAIN ret.result.tag_id_dict :
               ret.result.tag_id_dict[tag] \in 0..(component.num_tags - 1)

(***************************************************************************)
(* C23: for every score vector, ties included, each entry of the ranking   *)
(* _predict_label returns pairs a label name with exactly the score the    *)
(* model gave to the id of that label, no label is ranked twice, and when  *)
(* there is a label the reported intent is the first entry of the ranking  *)
(* and carries the maximum score.                                          *)
(***************************************************************************)
\* the id of a label name in the inverted label dictionary
LabelIdOf(name) ==
    CHOOSE label_id \in DOMAIN component.inverted_label_dict.dict :
        component.inverted_label_dict.dict[label_id] = name

C23_RankingPairsLabelWithItsScore ==
    (ret.op = "_predict_label" /\ ret.result.raised = "none")
    => LET ranking == ret.result.label_ranking
           i_scores == ret.out.i_scores
       IN  /\ \A k \in 1..Len(ranking) :
                 ranking[k].confidence
                     = i_scores[LabelIdOf(ranking[k].name) + 1]
           /\ \A k, l \in 1..Len(ranking) :
                 ranking[k].name = ranking[l].name => k = l
           /\ Len(i_scores) > 0 =>
                 /\ Len(ranking) > 0
                 /\ ret.result.label = ranking[1]
                 /\ \A i \in 1..Len(i_scores) :
                       ret.result.label.confidence >= i_scores[i]

\* tied scores on both levels, the best label not the first one
C23_Witness ==
    /\ ret.op = "_predict_label"
    /\ ret.result.raised = "none"
    /\ Len(ret.out.i_scores) >= 4
    /\ ret.out.i_scores[1] = 0
    /\ Cardinality({i \in 1..Len(ret.out.i_scores) :
                        ret.out.i_scores[i] = 1}) >= 2
    /\ Cardinality({i \in 1..Len(ret.out.i_scores) :
                        ret.out.i_scores[i] = 0}) >= 2
    /\ ret.result.label.confidence = 1
    /\ ret.result.label_ranking[Len(ret.result.label_ranking)].confidence = 0

====
